---- MODULE Spec2Model ----
(***************************************************************************)
(* A model of the URL parser of src/src/index.ts (a port of Go's net/url   *)
(* parser).  Strings are sequences of character codes, indexed from 0 by   *)
(* the helpers below as in the source.  The bodies the source still        *)
(* carries in Go syntax (unescape, parseHost, parseAuthority, Parse) are   *)
(* read with the meaning of the statements as written: a switch case does  *)
(* not fall through, s[i:j] is a slice.                                    *)
(***************************************************************************)
EXTENDS Integers, Sequences, FiniteSets, TLC

VARIABLES input, viaRequest, op, pc, rawURL, url, rest, authority, frag, ret

vars == <<input, viaRequest, op, pc, rawURL, url, rest, authority, frag, ret>>

(* ------------------------------ bounds -------------------------------- *)

\* longest input enumerated over Alphabet (the named examples are longer)
MaxLen == 3

(* --------------------------- character codes --------------------------- *)

chDel == 127
chSpace == 32
chHash == 35
chPercent == 37
chPlus == 43
chMinus == 45
chDot == 46
chSlash == 47
chZero == 48
chNine == 57
chColon == 58
chQuestion == 63
chAt == 64
chUpperA == 65
chUpperF == 70
chUpperZ == 90
chLBracket == 91
chRBracket == 93
chLowerA == 97
chLowerF == 102
chLowerZ == 122
chStar == 42

\* the value of a string field of URL that was never assigned
undefined == <<-1>>

(* ------------------------- JavaScript strings -------------------------- *)

At(s, i) == s[i + 1]

Min(a, b) == IF a < b THEN a ELSE b

\* F applied to the value of e: e is evaluated once, as a local of the source is
With(e, F(_)) == CHOOSE y \in {F(x) : x \in {e}} : TRUE

\* s.slice(i, j) for 0 <= i
slice(s, i, j) == SubSeq(s, i + 1, Min(j, Len(s)))

\* s.slice(i)
sliceFrom(s, i) == SubSeq(s, i + 1, Len(s))

\* the strings of the model
Str == Seq(Nat)

matchAt(s, sep, i) ==
    /\ i + Len(sep) <= Len(s)
    /\ \A k \in 0..(Len(sep) - 1) : At(s, i + k) = At(sep, k)

\* s.indexOf(sep): first index, or -1
indexOf[s \in Str, sep \in Str] ==
    IF \E i \in 0..Len(s) : matchAt(s, sep, i)
    THEN CHOOSE i \in 0..Len(s) : matchAt(s, sep, i) /\ \A j \in 0..(i - 1) : ~matchAt(s, sep, j)
    ELSE -1

\* s.lastIndexOf(sep): last index, or -1
lastIndexOf[s \in Str, sep \in Str] ==
    IF \E i \in 0..Len(s) : matchAt(s, sep, i)
    THEN CHOOSE i \in 0..Len(s) : matchAt(s, sep, i) /\ \A j \in (i + 1)..Len(s) : ~matchAt(s, sep, j)
    ELSE -1

endsWith(s, suffix) ==
    Len(s) >= Len(suffix) /\ sliceFrom(s, Len(s) - Len(suffix)) = suffix

toLowerCase(s) ==
    [i \in 1..Len(s) |-> IF chUpperA <= s[i] /\ s[i] <= chUpperZ THEN s[i] + 32 ELSE s[i]]

(* --------------------------- namespace strings ------------------------- *)

cut[s \in Str, sep \in Str] ==
    LET i == indexOf[s, sep]
    IN  IF i >= 0
        THEN [before |-> slice(s, 0, i), after |-> sliceFrom(s, i + Len(sep)), found |-> TRUE]
        ELSE [before |-> s, after |-> <<>>, found |-> FALSE]

\* s.split(c).length - 1 for a one-character c
count[s \in Str, c \in Str] == Cardinality({i \in 0..(Len(s) - 1) : matchAt(s, c, i)})

hasPrefix(s, prefix) ==
    Len(s) >= Len(prefix) /\ slice(s, 0, Len(prefix)) = prefix

(* ------------------------- stringContainsCTLByte ----------------------- *)

\* the loop of stringContainsCTLByte
ctlScan[s \in Str, i \in Nat] ==
    IF i < Len(s)
    THEN IF At(s, i) < 32 \/ At(s, i) = chDel THEN TRUE ELSE ctlScan[s, i + 1]
    ELSE FALSE

\* a plausible slip: the DEL byte is forgotten
ctlScanNoDel(s) == \E i \in 0..(Len(s) - 1) : At(s, i) < 32

stringContainsCTLByte(s) == ctlScan[s, 0]

(* ------------------------------ getScheme ------------------------------ *)

isLetter(c) == (chLowerA <= c /\ c <= chLowerZ) \/ (chUpperA <= c /\ c <= chUpperZ)

isDigitPlusMinusDot(c) ==
    (chZero <= c /\ c <= chNine) \/ c = chPlus \/ c = chMinus \/ c = chDot

\* a Result<T> that is an error: { name, message }
Err(name) == [status |-> "error", name |-> name]

\* a Result<Scheme> that is a value: { Scheme, Path }
OkScheme(scheme, path) == [status |-> "ok", name |-> "", Scheme |-> scheme, Path |-> path]

\* The loop of getScheme.  The outer test is on "c is not a letter", so the
\* ':' and "invalid character" arms are reached by letters only.
getSchemeLoop[s \in Str, i \in Nat] ==
    IF i < Len(s)
    THEN LET c == At(s, i) IN
         IF ~isLetter(c)
         THEN IF isDigitPlusMinusDot(c) /\ i = 0
              THEN OkScheme(<<>>, s)
              ELSE getSchemeLoop[s, i + 1]
         ELSE IF c = chColon
              THEN IF i = 0
                   THEN Err("MISSING_SCHEME")
                   ELSE OkScheme(slice(s, 0, i), sliceFrom(s, i + 1))
              ELSE OkScheme(<<>>, s)
    ELSE OkScheme(<<>>, s)

getScheme(s) == getSchemeLoop[s, 0]

(* --------------------------- validOptionalPort ------------------------- *)

isDigit(c) == ~(c < chZero \/ c > chNine)

portDigitsFrom(port, b) == \A k \in b..(Len(port) - 1) : isDigit(At(port, k))

\* a plausible slip: the digit loop starts one character late
validOptionalPortLate(port) ==
    IF port = <<>> THEN TRUE
    ELSE IF At(port, 0) # chColon THEN FALSE
    ELSE portDigitsFrom(port, 2)

validOptionalPort(port) ==
    IF port = <<>> THEN TRUE
    ELSE IF At(port, 0) # chColon THEN FALSE
    ELSE portDigitsFrom(port, 1)

(* ----------------------------- ishex, unhex ---------------------------- *)

ishex(c) ==
    \/ (c >= chZero /\ c <= chNine)
    \/ (c >= chLowerA /\ c <= chLowerF)
    \/ (c >= chUpperA /\ c <= chUpperF)

unhex(c) ==
    IF c >= chZero /\ c <= chNine THEN c - chZero
    ELSE IF c >= chLowerA /\ c <= chLowerF THEN c - chLowerA + 10
    ELSE IF c >= chUpperA /\ c <= chUpperF THEN c - chUpperA + 10
    ELSE 0

(* ------------------------------ shouldEscape --------------------------- *)

isAlnum(c) ==
    \/ (chLowerA <= c /\ c <= chLowerZ)
    \/ (chUpperA <= c /\ c <= chUpperZ)
    \/ (chZero <= c /\ c <= chNine)

\* ! $ & ' ( ) * + , ; = : [ ] < > "
HostLiterals == {33, 36, 38, 39, 40, 41, 42, 43, 44, 59, 61, 58, 91, 93, 60, 62, 34}

\* - _ . ~
UnreservedMarks == {45, 95, 46, 126}

\* shouldEscape is called by unescape and defined nowhere in the repository;
\* in the Host and Zone contexts, the only ones unescape asks about, a byte
\* needs escaping unless it is unreserved or one of the host literals.
shouldEscape(c, mode) ==
    IF isAlnum(c) THEN FALSE
    ELSE IF mode \in {"encodeHost", "encodeZone"} /\ c \in HostLiterals THEN FALSE
    ELSE IF c \in UnreservedMarks THEN FALSE
    ELSE TRUE

(* -------------------------------- unescape ----------------------------- *)

\* the encoding contexts unescape is called with
Modes ==
    {"encodeHost", "encodeZone", "encodeUserPassword", "encodePath", "encodeFragment",
     "encodeQueryComponent"}

OkStr(s) == [status |-> "ok", name |-> "", str |-> s]

\* First loop of unescape: the well-formedness scan.  Yields the error, or
\* the number of '%' and hasPlus.
unescapeScan[s \in Str, mode \in Modes, i \in Nat, n \in Nat, hasPlus \in BOOLEAN] ==
    IF i < Len(s)
    THEN LET c == At(s, i) IN
         IF c = chPercent
         THEN IF i + 2 >= Len(s) \/ ~ishex(At(s, i + 1)) \/ ~ishex(At(s, i + 2))
              THEN [name |-> "EscapeError", n |-> n + 1, hasPlus |-> hasPlus]
              ELSE IF /\ mode = "encodeHost"
                      /\ unhex(At(s, i + 1)) < 8
                      /\ slice(s, i, i + 3) # <<chPercent, 50, 53>>
              THEN [name |-> "EscapeError", n |-> n + 1, hasPlus |-> hasPlus]
              ELSE IF /\ mode = "encodeZone"
                      /\ slice(s, i, i + 3) # <<chPercent, 50, 53>>
                      /\ unhex(At(s, i + 1)) * 16 + unhex(At(s, i + 2)) # chSpace
                      /\ shouldEscape(unhex(At(s, i + 1)) * 16 + unhex(At(s, i + 2)), "encodeHost")
              THEN [name |-> "EscapeError", n |-> n + 1, hasPlus |-> hasPlus]
              ELSE unescapeScan[s, mode, i + 3, n + 1, hasPlus]
         ELSE IF c = chPlus
         THEN unescapeScan[s, mode, i + 1, n, mode = "encodeQueryComponent"]
         ELSE IF mode \in {"encodeHost", "encodeZone"} /\ c < 128 /\ shouldEscape(c, mode)
              THEN [name |-> "InvalidHostError", n |-> n, hasPlus |-> hasPlus]
              ELSE unescapeScan[s, mode, i + 1, n, hasPlus]
    ELSE [name |-> "", n |-> n, hasPlus |-> hasPlus]

\* Second loop of unescape: the decoded copy.
unescapeBuild[s \in Str, mode \in Modes, i \in Nat] ==
    IF i < Len(s)
    THEN LET c == At(s, i) IN
         IF c = chPercent
         THEN <<unhex(At(s, i + 1)) * 16 + unhex(At(s, i + 2))>> \o unescapeBuild[s, mode, i + 3]
         ELSE IF c = chPlus
         THEN <<IF mode = "encodeQueryComponent" THEN chSpace ELSE chPlus>>
                  \o unescapeBuild[s, mode, i + 1]
         ELSE <<c>> \o unescapeBuild[s, mode, i + 1]
    ELSE <<>>

unescape[s \in Str, mode \in Modes] ==
    With(unescapeScan[s, mode, 0, 0, FALSE], LAMBDA scan :
        IF scan.name # "" THEN Err(scan.name)
        ELSE IF scan.n = 0 /\ ~scan.hasPlus THEN OkStr(s)
        ELSE OkStr(unescapeBuild[s, mode, 0]))

(* -------------------------------- parseHost ---------------------------- *)

\* lines 238-253: the zone of an IP-literal, host[:zone], host[zone:i], host[i:]
parseHostZone(host, i, zone) ==
    With(unescape[slice(host, 0, zone), "encodeHost"], LAMBDA host1 :
        IF host1.status = "error" THEN host1
        ELSE With(unescape[slice(host, zone, i), "encodeZone"], LAMBDA host2 :
            IF host2.status = "error" THEN host2
            ELSE With(unescape[sliceFrom(host, i), "encodeHost"], LAMBDA host3 :
                IF host3.status = "error" THEN host3
                ELSE OkStr(host1.str \o host2.str \o host3.str))))

parseHost[host \in Str] ==
    IF hasPrefix(host, <<chLBracket>>)
    THEN With(lastIndexOf[host, <<chRBracket>>], LAMBDA i :
             IF i < 0 THEN Err("MISSING_RBRACKET_IN_HOST")
             ELSE IF ~validOptionalPort(sliceFrom(host, i + 1)) THEN Err("INVALID_HOST_PORT")
             ELSE With(indexOf[slice(host, 0, i), <<chPercent, 50, 53>>], LAMBDA zone :
                      IF zone >= 0
                      THEN parseHostZone(host, i, zone)
                      ELSE unescape[host, "encodeHost"]))
    ELSE With(lastIndexOf[host, <<chColon>>], LAMBDA i :
             IF i # -1 /\ ~validOptionalPort(sliceFrom(host, i))
             THEN Err("INVALID_HOST_PORT")
             ELSE unescape[host, "encodeHost"])

(* ------------------------------ parseAuthority ------------------------- *)

\* - . _ : ~ ! $ & ' ( ) * + , ; = % @
UserinfoMarks == {45, 46, 95, 58, 126, 33, 36, 38, 39, 40, 41, 42, 43, 44, 59, 61, 37, 64}

\* validUserinfo is called by parseAuthority and defined nowhere in the
\* repository: the checked character class of a userinfo.
validUserinfo(s) == \A k \in 0..(Len(s) - 1) : isAlnum(At(s, k)) \/ At(s, k) \in UserinfoMarks

OkAuthority(hasUser, username, hasPassword, password, host) ==
    [status |-> "ok", name |-> "", hasUser |-> hasUser, username |-> username,
     hasPassword |-> hasPassword, password |-> password, host |-> host]

\* lines 282-301: the userinfo before the last '@'
parseUserinfo(userinfo, host) ==
    IF ~validUserinfo(userinfo) THEN Err("invalid userinfo")
    ELSE IF indexOf[userinfo, <<chColon>>] < 0
    THEN With(unescape[userinfo, "encodeUserPassword"], LAMBDA u :
             IF u.status = "error" THEN u
             ELSE OkAuthority(TRUE, u.str, FALSE, <<>>, host))
    ELSE With(cut[userinfo, <<chColon>>], LAMBDA c :
             With(unescape[c.before, "encodeUserPassword"], LAMBDA username :
                 IF username.status = "error" THEN username
                 ELSE With(unescape[c.after, "encodeUserPassword"], LAMBDA password :
                     IF password.status = "error" THEN password
                     ELSE OkAuthority(TRUE, username.str, TRUE, password.str, host))))

\* the separator found at the first '@' instead of the last
authorityAtFirst(auth) == indexOf[auth, <<chAt>>]

\* line 270: var i = authority.lastIndexOf("@")
authorityAt(auth) == lastIndexOf[auth, <<chAt>>]

parseAuthority[auth \in Str] ==
    With(authorityAt(auth), LAMBDA i :
        With(parseHost[IF i < 0 THEN auth ELSE sliceFrom(auth, i + 1)], LAMBDA h :
            IF h.status = "error" THEN h
            ELSE IF i < 0 THEN OkAuthority(FALSE, <<>>, FALSE, <<>>, h.str)
            ELSE parseUserinfo(slice(auth, 0, i), h.str)))

(* ------------------------------- inputs -------------------------------- *)

\* http://example.com/a?b
exHttp == <<104, 116, 116, 112, 58, 47, 47, 101, 120, 97, 109, 112, 108, 101, 46, 99, 111, 109, 47, 97, 63, 98>>

\* http://example.com/a?
exHttpForce == <<104, 116, 116, 112, 58, 47, 47, 101, 120, 97, 109, 112, 108, 101, 46, 99, 111, 109, 47, 97, 63>>

\* mailto:foo@example.com
exMailto == <<109, 97, 105, 108, 116, 111, 58, 102, 111, 111, 64, 101, 120, 97, 109, 112, 108, 101, 46, 99, 111, 109>>

\* cache_object:foo/bar
exCacheColon == <<99, 97, 99, 104, 101, 95, 111, 98, 106, 101, 99, 116, 58, 102, 111, 111, 47, 98, 97, 114>>

\* cache_object/foo/bar
exCacheSlash == <<99, 97, 99, 104, 101, 95, 111, 98, 106, 101, 99, 116, 47, 102, 111, 111, 47, 98, 97, 114>>

\* http://[fe80::1%25en0]:8080/
exZoneUrl == <<104, 116, 116, 112, 58, 47, 47, 91, 102, 101, 56, 48, 58, 58, 49, 37, 50, 53, 101, 110, 48, 93, 58, 56, 48, 56, 48, 47>>

\* //[fe80::1%25en0]:8080/
exZoneUrlRel == <<47, 47, 91, 102, 101, 56, 48, 58, 58, 49, 37, 50, 53, 101, 110, 48, 93, 58, 56, 48, 56, 48, 47>>

\* [fe80::1%25en0]:8080
exZoneHost == <<91, 102, 101, 56, 48, 58, 58, 49, 37, 50, 53, 101, 110, 48, 93, 58, 56, 48, 56, 48>>

\* file:///path
exFile == <<102, 105, 108, 101, 58, 47, 47, 47, 112, 97, 116, 104>>

\* file:/path
exFileSingle == <<102, 105, 108, 101, 58, 47, 112, 97, 116, 104>>

\* *
exStar == <<42>>

\* :80
exPort80 == <<58, 56, 48>>

\* :8a
exPort8a == <<58, 56, 97>>

\* 80
exBare80 == <<56, 48>>

\* a<DEL>
exDel == <<97, 127>>

\* a#<DEL>
exDelFrag == <<97, 35, 127>>

\* +a:
exPlusFirst == <<43, 97, 58>>

\* a+-.1:b
exPlusInside == <<97, 43, 45, 46, 49, 58, 98>>

\* //u:p@h:80/x
exUserHost == <<47, 47, 117, 58, 112, 64, 104, 58, 56, 48, 47, 120>>

\* //a@b@c
exTwoAt == <<47, 47, 97, 64, 98, 64, 99>>

\* //a/b?c?d
exRelQuery == <<47, 47, 97, 47, 98, 63, 99, 63, 100>>

\* ///a?
exTriple == <<47, 47, 47, 97, 63>>

\* /a%zz
exBadEscape == <<47, 97, 37, 122, 122>>

\* HTTP://A/
\* a@b@c
exAuthTwoAt == <<97, 64, 98, 64, 99>>

\* u:p:q@h:80
exAuthUserPass == <<117, 58, 112, 58, 113, 64, 104, 58, 56, 48>>

\* a/b@c:x
exAuthBothBad == <<97, 47, 98, 64, 99, 58, 120>>

exUpper == <<72, 84, 84, 80, 58, 47, 47, 65, 47>>

Examples ==
    {exHttp, exHttpForce, exMailto, exCacheColon, exCacheSlash, exZoneUrl,
     exZoneUrlRel, exZoneHost, exFile, exStar, exPort80, exPort8a,
     exBare80, exDel, exDelFrag, exPlusFirst, exPlusInside, exUserHost,
     exTwoAt, exRelQuery, exTriple, exBadEscape, exUpper, exFileSingle,
     exAuthTwoAt, exAuthUserPass, exAuthBothBad}

\* a control byte, '#', '/', '1', ':', '?', '@', 'A', 'a'
Alphabet == {1, chHash, chSlash, 49, chColon, chQuestion, chAt, chUpperA, chLowerA}

StringsUpTo(n) == UNION {[1..k -> Alphabet] : k \in 0..n}

Inputs == StringsUpTo(MaxLen) \cup Examples

(* ----------------------------- the URL record -------------------------- *)

\* var url: URL = {}.  A boolean field that was never assigned reads FALSE
\* (the source assigns these fields true or not at all).
EmptyURL ==
    [Scheme |-> undefined, Opaque |-> undefined, Host |-> undefined, Path |-> undefined,
     RawQuery |-> undefined, Fragment |-> undefined, ForceQuery |-> FALSE, OmitHost |-> FALSE]

NoRet == [status |-> "none", name |-> ""]

OkURL == [status |-> "ok", name |-> ""]

OkBool(b) == [status |-> "ok", name |-> "", bool |-> b]

(* ------------------------- the steps of parse -------------------------- *)

\* a plausible slip: the empty input is rejected whatever viaRequest is
parseBeginNoViaTest(raw, via) ==
    IF stringContainsCTLByte(raw)
    THEN [next |-> "return", ret |-> Err("INVALID_CTRL_CHARACTER"), url |-> EmptyURL, rest |-> <<>>]
    ELSE IF raw = <<>>
    THEN [next |-> "return", ret |-> Err("EMPTY_URL"), url |-> EmptyURL, rest |-> <<>>]
    ELSE [next |-> "query", ret |-> NoRet,
          url |-> [EmptyURL EXCEPT !.Scheme = toLowerCase(getScheme(raw).Scheme)],
          rest |-> getScheme(raw).Path]

\* lines 309-333: the control-byte and empty checks, "*", and the scheme
parseBegin(raw, via) ==
    IF stringContainsCTLByte(raw)
    THEN [next |-> "return", ret |-> Err("INVALID_CTRL_CHARACTER"), url |-> EmptyURL, rest |-> <<>>]
    ELSE IF raw = <<>> /\ via
    THEN [next |-> "return", ret |-> Err("EMPTY_URL"), url |-> EmptyURL, rest |-> <<>>]
    ELSE IF raw = <<chStar>>
    THEN [next |-> "return", ret |-> OkURL, url |-> [EmptyURL EXCEPT !.Path = <<chStar>>],
          rest |-> <<>>]
    ELSE With(getScheme(raw), LAMBDA decodedScheme :
             IF decodedScheme.status = "error"
             THEN [next |-> "return", ret |-> decodedScheme, url |-> EmptyURL, rest |-> <<>>]
             ELSE [next |-> "query", ret |-> NoRet,
                   url |-> [EmptyURL EXCEPT !.Scheme = toLowerCase(decodedScheme.Scheme)],
                   rest |-> decodedScheme.Path])

\* a plausible slip: the query is cut at the last '?' instead of the first
parseQueryLastCut(u, r) ==
    IF endsWith(r, <<chQuestion>>) /\ count[r, <<chQuestion>>] = 1
    THEN [url |-> [u EXCEPT !.ForceQuery = TRUE], rest |-> slice(r, 0, Len(r) - 1)]
    ELSE With(lastIndexOf[r, <<chQuestion>>], LAMBDA i :
             IF i >= 0
             THEN [url |-> [u EXCEPT !.RawQuery = sliceFrom(r, i + 1)], rest |-> slice(r, 0, i)]
             ELSE [url |-> [u EXCEPT !.RawQuery = <<>>], rest |-> r])

\* lines 335-342: ForceQuery, or the cut at the first '?'
parseQuery(u, r) ==
    IF endsWith(r, <<chQuestion>>) /\ count[r, <<chQuestion>>] = 1
    THEN [url |-> [u EXCEPT !.ForceQuery = TRUE], rest |-> slice(r, 0, Len(r) - 1)]
    ELSE With(cut[r, <<chQuestion>>], LAMBDA cutRes :
             [url |-> [u EXCEPT !.RawQuery = cutRes.after], rest |-> cutRes.before])

\* a plausible slip: the colon is looked for after the first '/', not before it
parseRootlessAfterSlash(u, r, via) ==
    IF ~(Len(r) > 0 /\ At(r, 0) = chSlash)
    THEN IF u.Scheme # <<>>
         THEN [next |-> "return", ret |-> OkURL, url |-> [u EXCEPT !.Opaque = r]]
         ELSE IF via
         THEN [next |-> "return", ret |-> Err("INVALID_REQUEST_URI"), url |-> u]
         ELSE IF indexOf[cut[r, <<chSlash>>].after, <<chColon>>] # -1
         THEN [next |-> "return", ret |-> Err("PATH_UNEXPECTED_COLON"), url |-> u]
         ELSE [next |-> "authority", ret |-> NoRet, url |-> u]
    ELSE [next |-> "authority", ret |-> NoRet, url |-> u]

\* lines 344-364: the rootless forms
parseRootless(u, r, via) ==
    IF ~(Len(r) > 0 /\ At(r, 0) = chSlash)
    THEN IF u.Scheme # <<>>
         THEN [next |-> "return", ret |-> OkURL, url |-> [u EXCEPT !.Opaque = r]]
         ELSE IF via
         THEN [next |-> "return", ret |-> Err("INVALID_REQUEST_URI"), url |-> u]
         ELSE IF indexOf[cut[r, <<chSlash>>].before, <<chColon>>] # -1
         THEN [next |-> "return", ret |-> Err("PATH_UNEXPECTED_COLON"), url |-> u]
         ELSE [next |-> "authority", ret |-> NoRet, url |-> u]
    ELSE [next |-> "authority", ret |-> NoRet, url |-> u]

\* a plausible slip: the viaRequest test is left out
hasAuthorityNoVia(scheme, r, via) ==
    /\ (scheme # <<>> \/ ~hasPrefix(r, <<chSlash, chSlash, chSlash>>))
    /\ hasPrefix(r, <<chSlash, chSlash>>)

\* line 366: the condition under which the remainder carries an authority
hasAuthority(scheme, r, via) ==
    /\ (scheme # <<>> \/ (~via /\ ~hasPrefix(r, <<chSlash, chSlash, chSlash>>)))
    /\ hasPrefix(r, <<chSlash, chSlash>>)

\* line 380: the condition under which OmitHost is set
omitsHost(scheme, r) == scheme # <<>> /\ hasPrefix(r, <<chSlash>>)

\* lines 366-384.  The result of parseAuthority is tested for an error and
\* dropped: url.Host is not assigned.
parseAuthorityStep(u, r, via) ==
    IF hasAuthority(u.Scheme, r, via)
    THEN With(cut[sliceFrom(r, 2), <<chSlash>>], LAMBDA tup :
             With(parseAuthority[tup.before], LAMBDA authorityRes :
                 [next |-> IF authorityRes.status = "error" THEN "return" ELSE "setPath",
                  ret |-> IF authorityRes.status = "error" THEN Err(authorityRes.name) ELSE NoRet,
                  url |-> u,
                  rest |-> IF tup.found THEN <<chSlash>> \o tup.after ELSE <<>>,
                  authority |-> tup.before]))
    ELSE IF omitsHost(u.Scheme, r)
    THEN [next |-> "setPath", ret |-> NoRet, url |-> [u EXCEPT !.OmitHost = TRUE],
          rest |-> r, authority |-> undefined]
    ELSE [next |-> "setPath", ret |-> NoRet, url |-> u, rest |-> r, authority |-> undefined]

\* url.setPath is called at line 390 and defined nowhere in the repository:
\* the path is the remainder decoded in the Path context, a decode error is
\* returned.  (The RawPath hint is not modelled.)
setPath(u, r) ==
    With(unescape[r, "encodePath"], LAMBDA path :
        IF path.status = "error"
        THEN [ret |-> Err(path.name), url |-> u]
        ELSE [ret |-> OkURL, url |-> [u EXCEPT !.Path = path.str]])

\* url.setFragment is called at line 413 and defined nowhere in the
\* repository: the fragment decoded in the Fragment context.
setFragment(u, f) ==
    With(unescape[f, "encodeFragment"], LAMBDA fragment :
        IF fragment.status = "error"
        THEN [ret |-> Err(fragment.name), url |-> u]
        ELSE [ret |-> OkURL, url |-> [u EXCEPT !.Fragment = fragment.str]])

(* ------------------------------ the machine ---------------------------- *)

Init ==
    /\ input \in Inputs
    /\ viaRequest \in BOOLEAN
    /\ op = "none"
    /\ pc = "start"
    /\ rawURL = <<>>
    /\ url = EmptyURL
    /\ rest = <<>>
    /\ authority = undefined
    /\ frag = <<>>
    /\ ret = NoRet

\* where parse returns to
Returned == IF op = "Parse" THEN "fragment" ELSE "done"

CallGetScheme ==
    /\ pc = "start"
    /\ op' = "getScheme"
    /\ ret' = getScheme(input)
    /\ pc' = "done"
    /\ UNCHANGED <<input, viaRequest, rawURL, url, rest, authority, frag>>

CallValidOptionalPort ==
    /\ pc = "start"
    /\ op' = "validOptionalPort"
    /\ ret' = OkBool(validOptionalPort(input))
    /\ pc' = "done"
    /\ UNCHANGED <<input, viaRequest, rawURL, url, rest, authority, frag>>

CallParseHost ==
    /\ pc = "start"
    /\ op' = "parseHost"
    /\ ret' = parseHost[input]
    /\ pc' = "done"
    /\ UNCHANGED <<input, viaRequest, rawURL, url, rest, authority, frag>>

CallParseAuthority ==
    /\ pc = "start"
    /\ op' = "parseAuthority"
    /\ ret' = parseAuthority[input]
    /\ pc' = "done"
    /\ UNCHANGED <<input, viaRequest, rawURL, url, rest, authority, frag>>

\* parse(rawURL, viaRequest) called directly
CallParse ==
    /\ pc = "start"
    /\ op' = "parse"
    /\ rawURL' = input
    /\ pc' = "parse"
    /\ UNCHANGED <<input, viaRequest, url, rest, authority, frag, ret>>

\* Parse(rawURL), lines 405-406: cut off #frag, call parse(u, false)
CallParseEntry ==
    /\ pc = "start"
    /\ op' = "Parse"
    /\ \E cutRes \in {cut[input, <<chHash>>]} :
          /\ rawURL' = cutRes.before
          /\ frag' = cutRes.after
    /\ viaRequest' = FALSE
    /\ pc' = "parse"
    /\ UNCHANGED <<input, url, rest, authority, ret>>

ParseBegin ==
    /\ pc = "parse"
    /\ \E b \in {parseBegin(rawURL, viaRequest)} :
          /\ url' = b.url
          /\ rest' = b.rest
          /\ ret' = b.ret
          /\ pc' = IF b.next = "return" THEN Returned ELSE b.next
    /\ UNCHANGED <<input, viaRequest, op, rawURL, authority, frag>>

ParseQuery ==
    /\ pc = "query"
    /\ \E b \in {parseQuery(url, rest)} :
          /\ url' = b.url
          /\ rest' = b.rest
    /\ pc' = "rootless"
    /\ UNCHANGED <<input, viaRequest, op, rawURL, authority, frag, ret>>

ParseRootless ==
    /\ pc = "rootless"
    /\ \E b \in {parseRootless(url, rest, viaRequest)} :
          /\ url' = b.url
          /\ ret' = b.ret
          /\ pc' = IF b.next = "return" THEN Returned ELSE b.next
    /\ UNCHANGED <<input, viaRequest, op, rawURL, rest, authority, frag>>

ParseAuthority ==
    /\ pc = "authority"
    /\ \E b \in {parseAuthorityStep(url, rest, viaRequest)} :
          /\ url' = b.url
          /\ rest' = b.rest
          /\ authority' = b.authority
          /\ ret' = b.ret
          /\ pc' = IF b.next = "return" THEN Returned ELSE b.next
    /\ UNCHANGED <<input, viaRequest, op, rawURL, frag>>

ParseSetPath ==
    /\ pc = "setPath"
    /\ \E b \in {setPath(url, rest)} :
          /\ url' = b.url
          /\ ret' = b.ret
    /\ pc' = Returned
    /\ UNCHANGED <<input, viaRequest, op, rawURL, rest, authority, frag>>

\* Parse, lines 407-416: the error of parse wrapped, or the fragment set
ParseFragment ==
    /\ pc = "fragment"
    /\ \E b \in {IF ret.status = "error" THEN [ret |-> Err(ret.name), url |-> url]
                 ELSE IF frag = <<>> THEN [ret |-> ret, url |-> url]
                 ELSE setFragment(url, frag)} :
          /\ url' = b.url
          /\ ret' = b.ret
    /\ pc' = "done"
    /\ UNCHANGED <<input, viaRequest, op, rawURL, rest, authority, frag>>

Next ==
    \/ CallGetScheme
    \/ CallValidOptionalPort
    \/ CallParseHost
    \/ CallParseAuthority
    \/ CallParse
    \/ CallParseEntry
    \/ ParseBegin
    \/ ParseQuery
    \/ ParseRootless
    \/ ParseAuthority
    \/ ParseSetPath
    \/ ParseFragment

Spec == Init /\ [][Next]_vars

(* ------------------------------- the claims ---------------------------- *)

\* a string field that is empty or was never assigned
Unset(v) == v = undefined \/ v = <<>>

\* a byte in 0x00-0x1F, or 0x7F, somewhere in s
HasControlByte(s) == \E k \in 1..Len(s) : (0 <= s[k] /\ s[k] <= 31) \/ s[k] = 127

\* the 1-based position of the first c in s, or Len(s) + 1
FirstPos(s, c) ==
    CHOOSE k \in 1..(Len(s) + 1) :
        /\ \A j \in 1..(k - 1) : s[j] # c
        /\ k = Len(s) + 1 \/ s[k] = c

BeforeFirst(s, c) == SubSeq(s, 1, FirstPos(s, c) - 1)

AfterFirst(s, c) == SubSeq(s, FirstPos(s, c) + 1, Len(s))

\* the scheme grammar ALPHA *( ALPHA / DIGIT / "+" / "-" / "." )
GrammarLetter(c) == (97 <= c /\ c <= 122) \/ (65 <= c /\ c <= 90)

GrammarSchemeChar(c) == GrammarLetter(c) \/ (48 <= c /\ c <= 57) \/ c \in {43, 45, 46}

\* s begins with a scheme of the grammar followed by ':'
HasGrammarScheme(s) ==
    /\ FirstPos(s, 58) <= Len(s)
    /\ FirstPos(s, 58) > 1
    /\ GrammarLetter(s[1])
    /\ \A j \in 2..(FirstPos(s, 58) - 1) : GrammarSchemeChar(s[j])

\* C1: for every input, getScheme agrees with the scheme grammar: a leading
\* grammatical scheme and ':' give scheme = the text before the ':' and rest =
\* the text after it (so "http://example.com/a?b" has scheme "http"), a
\* leading ':' gives the MissingScheme error, and everything else gives the
\* empty scheme and the whole input as rest.
C1_GetSchemeFollowsGrammar ==
    (op = "getScheme" /\ pc = "done") =>
        /\ IF Len(input) > 0 /\ input[1] = 58
           THEN ret.status = "error" /\ ret.name = "MISSING_SCHEME"
           ELSE IF HasGrammarScheme(input)
           THEN /\ ret.status = "ok"
                /\ ret.Scheme = BeforeFirst(input, 58)
                /\ ret.Path = AfterFirst(input, 58)
           ELSE /\ ret.status = "ok"
                /\ ret.Scheme = <<>>
                /\ ret.Path = input
        /\ input = exHttp => ret.status = "ok" /\ ret.Scheme = <<104, 116, 116, 112>>

\* C2 as stated: any input of Parse with a control byte anywhere in it, after
\* a '#' included, yields the ControlCharacter error.
C2_ControlByteAnywhere ==
    (op = "Parse" /\ pc = "done" /\ HasControlByte(input)) =>
        ret.status = "error" /\ ret.name = "INVALID_CTRL_CHARACTER"

\* C2 amended: an input of Parse with a control byte before its first '#'
\* (anywhere, when it has no '#') yields the ControlCharacter error, and so
\* does an argument of parse with a control byte anywhere in it.
C2_ControlByteBeforeFragment ==
    /\ (op = "Parse" /\ pc = "done" /\ HasControlByte(BeforeFirst(input, 35))) =>
           ret.status = "error" /\ ret.name = "INVALID_CTRL_CHARACTER"
    /\ (op = "parse" /\ pc = "done" /\ HasControlByte(input)) =>
           ret.status = "error" /\ ret.name = "INVALID_CTRL_CHARACTER"

\* Parse has rejected an input for a control byte that stands before a '#'
C2_Witness ==
    /\ op = "Parse"
    /\ pc = "done"
    /\ FirstPos(input, 35) <= Len(input)
    /\ HasControlByte(BeforeFirst(input, 35))
    /\ ret.name = "INVALID_CTRL_CHARACTER"

\* C3 as stated: parse("cache_object:foo/bar", false) returns no error; the
\* text before the colon is the scheme and the rest the opaque path.
C3_CacheObjectIsOpaque ==
    (op = "parse" /\ pc = "done" /\ input = exCacheColon /\ ~viaRequest) =>
        /\ ret.status = "ok"
        /\ url.Scheme = BeforeFirst(exCacheColon, 58)
        /\ url.Opaque = AfterFirst(exCacheColon, 58)

\* C3 amended: parse("cache_object:foo/bar", false) returns the
\* PathUnexpectedColon error: no scheme is extracted, and the first path
\* segment of the remainder, "cache_object:foo", contains a colon.
C3_CacheObjectUnexpectedColon ==
    (op = "parse" /\ pc = "done" /\ input = exCacheColon /\ ~viaRequest) =>
        /\ ret.status = "error"
        /\ ret.name = "PATH_UNEXPECTED_COLON"
        /\ url.Scheme = <<>>
        /\ Unset(url.Opaque)

\* parse has returned for "cache_object:foo/bar" with viaRequest false
C3_Witness ==
    /\ op = "parse"
    /\ pc = "done"
    /\ input = exCacheColon
    /\ ~viaRequest
    /\ ret.name = "PATH_UNEXPECTED_COLON"

\* C4: a non-empty scheme with a remainder that does not start with '/' gives
\* opaque = that remainder ("mailto:foo@example.com" gives scheme "mailto",
\* opaque "foo@example.com"), and a result with opaque set has no host and
\* no omitHost.
C4_OpaqueRemainder ==
    (op = "parse" /\ pc = "done") =>
        /\ (ret.status = "ok" /\ ~Unset(url.Scheme) /\ ~hasPrefix(rest, <<47>>)) =>
               url.Opaque = rest
        /\ (ret.status = "ok" /\ url.Opaque # undefined) =>
               Unset(url.Host) /\ ~url.OmitHost
        /\ (input = exMailto /\ ~viaRequest) =>
               /\ ret.status = "ok"
               /\ url.Scheme = BeforeFirst(exMailto, 58)
               /\ url.Opaque = AfterFirst(exMailto, 58)

\* the text after the scheme has exactly one '?', and it is its last character
OneTrailingQuestion(s) ==
    /\ Len(s) > 0
    /\ s[Len(s)] = 63
    /\ \A k \in 1..(Len(s) - 1) : s[k] # 63

\* C5: forceQuery is set exactly when the text after the scheme has exactly
\* one '?' and that is its last character; the '?' is then stripped and
\* rawQuery is empty.  Otherwise rawQuery is the text after the first '?'
\* (empty when there is none).  In every result forceQuery implies an empty
\* rawQuery.
C5_ForceQuery ==
    /\ pc = "rootless" =>
           IF OneTrailingQuestion(getScheme(rawURL).Path)
           THEN /\ url.ForceQuery
                /\ Unset(url.RawQuery)
                /\ rest = SubSeq(getScheme(rawURL).Path, 1, Len(getScheme(rawURL).Path) - 1)
           ELSE /\ ~url.ForceQuery
                /\ url.RawQuery = AfterFirst(getScheme(rawURL).Path, 63)
                /\ rest = BeforeFirst(getScheme(rawURL).Path, 63)
    /\ url.ForceQuery => Unset(url.RawQuery)

\* parse has returned a result with forceQuery set
C5_Witness ==
    /\ op = "parse"
    /\ pc = "done"
    /\ ret.status = "ok"
    /\ OneTrailingQuestion(input)
    /\ url.ForceQuery

\* C6: for the empty input, parse with viaRequest true returns EmptyUrl, and
\* parse with viaRequest false succeeds with every field empty or unset.
C6_EmptyInput ==
    (op = "parse" /\ pc = "done" /\ input = <<>>) =>
        IF viaRequest
        THEN ret.status = "error" /\ ret.name = "EMPTY_URL"
        ELSE /\ ret.status = "ok"
             /\ Unset(url.Scheme) /\ Unset(url.Opaque) /\ Unset(url.Host)
             /\ Unset(url.Path) /\ Unset(url.RawQuery) /\ Unset(url.Fragment)
             /\ ~url.ForceQuery /\ ~url.OmitHost

\* parse has succeeded on the empty input
C6_Witness ==
    /\ op = "parse"
    /\ pc = "done"
    /\ input = <<>>
    /\ ~viaRequest
    /\ ret.status = "ok"

\* fe80::1%en0
zoneHostText == <<102, 101, 56, 48, 58, 58, 49, 37, 101, 110, 48>>

\* C7: Parse("http://[fe80::1%25en0]:8080/") succeeds with the host decoded
\* to "fe80::1%en0" and the path "/".
C7_ZoneHostDecoded ==
    (op = "Parse" /\ pc = "done" /\ input = exZoneUrl) =>
        /\ ret.status = "ok"
        /\ url.Host # undefined
        /\ \E k \in 0..Len(url.Host) : matchAt(url.Host, zoneHostText, k)
        /\ url.Path = <<47>>

\* C8: validOptionalPort is true exactly for the empty string and for ':'
\* followed by zero or more ASCII digits: it accepts "", ":80", ":" and
\* rejects "80", ":8a".
C8_ValidOptionalPort ==
    (op = "validOptionalPort" /\ pc = "done") =>
        /\ ret.bool <=>
               \/ input = <<>>
               \/ /\ input[1] = 58
                  /\ \A k \in 2..Len(input) : 48 <= input[k] /\ input[k] <= 57
        /\ input \in {<<>>, exPort80, <<58>>} => ret.bool
        /\ input \in {exBare80, exPort8a} => ~ret.bool

\* validOptionalPort has accepted ":80"
C8_Witness ==
    /\ op = "validOptionalPort"
    /\ pc = "done"
    /\ input = exPort80
    /\ ret.bool

\* the schemes and remainders the authority decision is also evaluated on
SchemeSamples == {<<>>, <<97>>, <<102, 105, 108, 101>>}

RemainderSamples ==
    {<<>>, <<47>>, <<47, 47>>, <<47, 47, 47>>, <<47, 47, 97>>, <<47, 47, 47, 97>>,
     <<47, 97>>, <<47, 47, 97, 47, 97>>}

\* the authority branch of parse is taken from (scheme, remainder, viaRequest)
TakesAuthority(scheme, r, via) ==
    parseAuthorityStep([EmptyURL EXCEPT !.Scheme = scheme], r, via).authority # undefined

\* C9 as stated: the remainder carries an authority exactly when it starts
\* with "//" and it is not the case that viaRequest is false and it starts
\* with "///", whatever the scheme.
C9_AuthorityIgnoresScheme ==
    pc = "authority" =>
        (TakesAuthority(url.Scheme, rest, viaRequest) <=>
             /\ hasPrefix(rest, <<47, 47>>)
             /\ ~(~viaRequest /\ hasPrefix(rest, <<47, 47, 47>>)))

\* the condition under which the remainder r carries an authority
AuthorityRule(scheme, r, via) ==
    /\ Len(r) >= 2 /\ r[1] = 47 /\ r[2] = 47
    /\ \/ scheme # <<>>
       \/ ~via /\ ~(Len(r) >= 3 /\ r[3] = 47)

\* C9 amended: the remainder carries an authority exactly when it starts with
\* "//" and either the scheme is non-empty, or viaRequest is false and the
\* remainder does not start with "///".
C9_AuthorityDependsOnScheme ==
    /\ pc = "authority" =>
           (TakesAuthority(url.Scheme, rest, viaRequest) <=>
                AuthorityRule(url.Scheme, rest, viaRequest))
    /\ pc = "authority" =>
           \A s \in SchemeSamples, r \in RemainderSamples, v \in BOOLEAN :
               TakesAuthority(s, r, v) <=> AuthorityRule(s, r, v)

\* parse has taken the authority branch, and has not for a request's "//..."
C9_Witness ==
    /\ op = "parse"
    /\ pc = "done"
    /\ ret.status = "ok"
    /\ hasPrefix(rawURL, <<47, 47>>)
    /\ ~viaRequest
    /\ authority # undefined

\* C10: in every successful result omitHost is true exactly when the scheme
\* is non-empty, the remainder starts with '/' and the authority branch was
\* not taken, and then the host is unset; "file:///path" is the named case
\* of omitHost = true.
C10_OmitHost ==
    (op = "parse" /\ pc = "done") =>
        /\ ret.status = "ok" =>
               /\ url.OmitHost <=>
                      (~Unset(url.Scheme) /\ hasPrefix(rest, <<47>>) /\ authority = undefined)
               /\ url.OmitHost => Unset(url.Host)
        /\ (input \in {exFile, exFileSingle} /\ ~viaRequest) =>
               ret.status = "ok" /\ url.OmitHost /\ Unset(url.Host)

\* the 1-based position of the last c in s, or 0
LastPos(s, c) ==
    CHOOSE k \in 0..Len(s) :
        /\ \A j \in (k + 1)..Len(s) : s[j] # c
        /\ k = 0 \/ s[k] = c

\* the text of an authority after its last '@'
HostText(s) == SubSeq(s, LastPos(s, 64) + 1, Len(s))

\* the text of an authority before its last '@'
UserText(s) == SubSeq(s, 1, LastPos(s, 64) - 1)

\* C11: parseAuthority splits at the LAST '@'.  With an '@' the host is
\* parsed from the text after the last '@' only, and the text before it is
\* the userinfo, split at its FIRST ':' into username and password; without
\* an '@' the whole text is the host and there is no userinfo; an error of
\* the host is returned whatever the userinfo is.
C11_SplitsAtLastAt ==
    (op = "parseAuthority" /\ pc = "done") =>
        IF LastPos(input, 64) = 0
        THEN /\ ret.status = parseHost[input].status
             /\ ret.status = "error" => ret = parseHost[input]
             /\ ret.status = "ok" => ~ret.hasUser /\ ret.host = parseHost[input].str
        ELSE /\ parseHost[HostText(input)].status = "error" =>
                    ret = parseHost[HostText(input)]
             /\ (parseHost[HostText(input)].status = "ok" /\ ret.status = "error") =>
                    ret.name \in {"invalid userinfo", "EscapeError"}
             /\ ret.status = "ok" =>
                    /\ ret.host = parseHost[HostText(input)].str
                    /\ ret.hasUser
                    /\ ret.hasPassword <=> (\E k \in 1..Len(UserText(input)) : UserText(input)[k] = 58)
                    /\ ret.username =
                           unescape[BeforeFirst(UserText(input), 58), "encodeUserPassword"].str
                    /\ ret.hasPassword =>
                           ret.password =
                               unescape[AfterFirst(UserText(input), 58), "encodeUserPassword"].str
             /\ input = exAuthBothBad => ret.name = "INVALID_HOST_PORT"

\* parseAuthority has split "a@b@c" into the userinfo "a@b" and the host "c"
C11_Witness ==
    /\ op = "parseAuthority"
    /\ pc = "done"
    /\ input = exAuthTwoAt
    /\ ret.status = "ok"
    /\ ret.hasUser
    /\ ret.username = <<97, 64, 98>>
    /\ ret.host = <<99>>

====
